---- MODULE Spec2Model ----
(***************************************************************************)
(* A model of the movies API: the connection manager (utils/db.js), the    *)
(* query layer (services/movieService.js), the presentation layer          *)
(* (controllers/movieController.js) and the routes with their query        *)
(* validation (routes/movieRoutes.js).                                     *)
(*                                                                         *)
(* Text is modelled as a sequence of one-character strings, so that        *)
(* trimming, prefix tests, case folding, LIKE matching and parsing are     *)
(* computed character by character as the code and the storage engine do.  *)
(***************************************************************************)
EXTENDS Integers, Sequences, FiniteSets, TLC

\* ------------------------------------------------------------------ bounds

\* Number of concurrent detail requests (GET /:id) in flight.
NReq == 2

Req == 1..NReq

\* ------------------------------------------------------------ state

VARIABLES
    \* utils/db.js
    ratingsAttached,   \* the module-level flag `let ratingsAttached`
    engineAttached,    \* whether the session holds the alias ratingsDb
    execInFlight,      \* requests whose db.exec(ATTACH) callback is pending
    execCalls,         \* number of db.exec calls issued so far
    movies,            \* the rows of the movies table (never written)
    ratingsTableExists,\* the file at RATINGS_DB_PATH holds the ratings table
    \* one detail request per element of Req
    pc,                \* "idle" | "attaching" | "querying" | "done"
    reqId,             \* req.params.id
    attachCalls,       \* attachRatingsDb() calls made by the request
    attachResult,      \* "none" | "pending" | "resolved" | "rejected"
    attachErr,         \* the failure the attach promise rejected with
    getCalls,          \* db.get calls made by the request
    getParams,         \* the bound parameters of the request's db.get
    attachedAtGet,     \* the attachment state when db.get was issued
    response,          \* what the controller answered
    \* history of the attach callbacks
    firstDone,         \* some ATTACH callback has fired
    overlapped,        \* pairs of requests whose ATTACH were in flight together
    ioFailed,          \* the engine failed an ATTACH for a reason of its own
    flagAtFail,        \* ratingsAttached right after the request's failed attach
    failedBefore,      \* the last ATTACH callback before the request had failed
    issuedExec,        \* the request's attachRatingsDb call issued db.exec
    lastAttachFailed,  \* the most recent ATTACH callback carried an error
    \* a direct call of a query-layer or presentation-layer function
    call,              \* the function called and its arguments
    out,               \* the results of the calls made so far
    \* one request on a list route (/, /year/:year, /genre/:genre)
    rq,                \* the route, its path parameter and req.query
    rqpc,              \* "none" | "received" | "awaiting" | "done"
    svcCall,           \* the query-layer call the controller made
    storageCalls,      \* number of db.all calls issued for the request
    rqRes              \* what was answered

dbVars == <<ratingsAttached, engineAttached, execInFlight, execCalls, movies,
            ratingsTableExists>>
reqVars == <<pc, reqId, attachCalls, attachResult, attachErr, getCalls,
             getParams, attachedAtGet, response>>
histVars == <<firstDone, overlapped, ioFailed, flagAtFail, failedBefore,
              issuedExec, lastAttachFailed>>
routeVars == <<rq, rqpc, svcCall, storageCalls, rqRes>>
callVars == <<call, out, routeVars>>
vars == <<dbVars, reqVars, histVars, callVars>>

\* ------------------------------------------------------------------ text

\* ECMAScript white space as far as the modelled alphabet has it.
IsWhiteSpace(c) == c = " "

RECURSIVE trimStart(_)
\* String.prototype.trimStart: drops the leading white space.
trimStart(s) ==
    IF s # <<>> /\ IsWhiteSpace(Head(s)) THEN trimStart(Tail(s)) ELSE s

RECURSIVE trimEnd(_)
\* String.prototype.trimEnd: drops the trailing white space.
trimEnd(s) ==
    IF s # <<>> /\ IsWhiteSpace(s[Len(s)])
    THEN trimEnd(SubSeq(s, 1, Len(s) - 1))
    ELSE s

\* String.prototype.trim
trim(s) == trimEnd(trimStart(s))

\* String.prototype.startsWith, for a one-character search string
startsWith(s, c) == s # <<>> /\ Head(s) = c

\* -------------------------------------------------------- decimal digits

\* The characters of a decimal digit.
DigitChar(d) ==
    CASE d = 0 -> "0" [] d = 1 -> "1" [] d = 2 -> "2" [] d = 3 -> "3"
      [] d = 4 -> "4" [] d = 5 -> "5" [] d = 6 -> "6" [] d = 7 -> "7"
      [] d = 8 -> "8" [] d = 9 -> "9"

IsDigit(c) == c \in {"0", "1", "2", "3", "4", "5", "6", "7", "8", "9"}

\* The value of a decimal digit.
DigitVal(c) == CHOOSE d \in 0..9 : DigitChar(d) = c

RECURSIVE DigitsBefore(_, _)
\* Two runs of digits of the same length: the first denotes the smaller
\* number.
DigitsBefore(a, b) ==
    /\ a # <<>>
    /\ \/ DigitVal(Head(a)) < DigitVal(Head(b))
       \/ Head(a) = Head(b) /\ DigitsBefore(Tail(a), Tail(b))

\* Two canonical numerals (no leading zero): the first denotes the smaller
\* number.
DecimalLess(a, b) ==
    Len(a) < Len(b) \/ (Len(a) = Len(b) /\ DigitsBefore(a, b))

\* ------------------------------------------------------------ JSON values

\* A parsed JSON value: t is "arr", "obj", "str" or "num"; kids are the
\* elements of an array (or the key, value pairs of an object, flattened,
\* in the order the object enumerates its keys);
\* text is the characters of a string or of a number.
JArr(kids) == [t |-> "arr", kids |-> kids, text |-> <<>>]
JObj(kids) == [t |-> "obj", kids |-> kids, text |-> <<>>]
JStr(text) == [t |-> "str", kids |-> <<>>, text |-> text]
JNum(text) == [t |-> "num", kids |-> <<>>, text |-> text]

\* The result of one parsing step: ok, the value, the index after it.
POk(v, n) == [ok |-> TRUE, val |-> v, next |-> n]
PFail == [ok |-> FALSE, val |-> JArr(<<>>), next |-> 0]

RECURSIVE SkipWs(_, _)
\* JSON white space before index i is skipped; the index of the next token.
SkipWs(s, i) ==
    IF i <= Len(s) /\ s[i] = " " THEN SkipWs(s, i + 1) ELSE i

RECURSIVE FindQuote(_, _)
\* The index of the first double quote at or after i, or 0.
FindQuote(s, i) ==
    IF i > Len(s) THEN 0
    ELSE IF s[i] = "\"" THEN i
    ELSE FindQuote(s, i + 1)

\* A string literal whose opening quote is at i.
ParseString(s, i) ==
    LET j == FindQuote(s, i + 1)
    IN  IF j = 0 THEN PFail ELSE POk(JStr(SubSeq(s, i + 1, j - 1)), j + 1)

RECURSIVE DigitsEnd(_, _)
\* The index after the run of digits starting at i.
DigitsEnd(s, i) ==
    IF i <= Len(s) /\ s[i] = "1" THEN DigitsEnd(s, i + 1) ELSE i

\* A number whose first digit is at i.
ParseNumber(s, i) ==
    LET j == DigitsEnd(s, i) IN POk(JNum(SubSeq(s, i, j - 1)), j)

RECURSIVE ParseValue(_, _)
RECURSIVE ParseElements(_, _, _)
RECURSIVE ParseMembers(_, _, _)

\* A JSON value starting at or after i (white space skipped).
ParseValue(s, i) ==
    LET j == SkipWs(s, i)
    IN  IF j > Len(s) THEN PFail
        ELSE IF s[j] = "[" THEN
            LET k == SkipWs(s, j + 1)
            IN  IF k <= Len(s) /\ s[k] = "]"
                THEN POk(JArr(<<>>), k + 1)
                ELSE ParseElements(s, j + 1, <<>>)
        ELSE IF s[j] = "{" THEN
            LET k == SkipWs(s, j + 1)
            IN  IF k <= Len(s) /\ s[k] = "}"
                THEN POk(JObj(<<>>), k + 1)
                ELSE ParseMembers(s, j + 1, <<>>)
        ELSE IF s[j] = "\"" THEN ParseString(s, j)
        ELSE IF s[j] = "1" THEN ParseNumber(s, j)
        ELSE PFail

\* The elements of an array after "[" or ",", up to and including "]".
ParseElements(s, i, acc) ==
    LET v == ParseValue(s, i)
    IN  IF ~v.ok THEN PFail
        ELSE LET j == SkipWs(s, v.next)
             IN  IF j > Len(s) THEN PFail
                 ELSE IF s[j] = "," THEN ParseElements(s, j + 1, Append(acc, v.val))
                 ELSE IF s[j] = "]" THEN POk(JArr(Append(acc, v.val)), j + 1)
                 ELSE PFail

\* The largest array index of ECMAScript, 2^32 - 2.
MaxArrayIndex == <<"4", "2", "9", "4", "9", "6", "7", "2", "9", "4">>

\* A property key that is an array index: the canonical numeral of an
\* integer from 0 to 2^32 - 2.
IsArrayIndex(k) ==
    /\ k # <<>>
    /\ \A i \in 1..Len(k) : IsDigit(k[i])
    /\ (k = <<"0">> \/ Head(k) # "0")
    /\ ~DecimalLess(MaxArrayIndex, k)

RECURSIVE CreateDataProperty(_, _, _)
\* The members of an object once the member key: val is defined on it. A
\* key the object has keeps its place and takes the new value; a new key
\* that is an array index goes among the array indices in ascending
\* numeric order, which come before all other keys; any other new key goes
\* last.
CreateDataProperty(kids, key, val) ==
    IF kids = <<>> THEN <<key, val>>
    ELSE IF kids[1] = key THEN <<key, val>> \o SubSeq(kids, 3, Len(kids))
    ELSE IF /\ IsArrayIndex(key.text)
            /\ \/ ~IsArrayIndex(kids[1].text)
               \/ DecimalLess(key.text, kids[1].text)
    THEN <<key, val>> \o kids
    ELSE <<kids[1], kids[2]>>
         \o CreateDataProperty(SubSeq(kids, 3, Len(kids)), key, val)

\* The members of an object after "{" or ",", up to and including "}".
ParseMembers(s, i, acc) ==
    LET j == SkipWs(s, i)
    IN  IF j > Len(s) \/ s[j] # "\"" THEN PFail
        ELSE LET key == ParseString(s, j)
             IN  IF ~key.ok THEN PFail
                 ELSE LET c == SkipWs(s, key.next)
                      IN  IF c > Len(s) \/ s[c] # ":" THEN PFail
                          ELSE LET v == ParseValue(s, c + 1)
                               IN  IF ~v.ok THEN PFail
                                   ELSE LET e == SkipWs(s, v.next)
                                            kv == CreateDataProperty(acc, key.val, v.val)
                                        IN  IF e > Len(s) THEN PFail
                                            ELSE IF s[e] = "," THEN ParseMembers(s, e + 1, kv)
                                            ELSE IF s[e] = "}" THEN POk(JObj(kv), e + 1)
                                            ELSE PFail

\* JSON.parse(text): the value, or a SyntaxError (threw).
JSON_parse(s) ==
    LET v == ParseValue(s, 1)
    IN  IF v.ok /\ SkipWs(s, v.next) = Len(s) + 1
        THEN [threw |-> FALSE, value |-> v.val]
        ELSE [threw |-> TRUE, value |-> JArr(<<>>)]

\* ------------------------------------------------- presentation layer

\* A column value as the storage engine hands it to JavaScript:
\* NULL (null), TEXT (a string) or INTEGER (a number).
Null == [type |-> "null", text |-> <<>>]
Text(s) == [type |-> "string", text |-> s]
Number(s) == [type |-> "number", text |-> s]

\* The default of safeParseJSON's second parameter, and what every caller
\* passes: the empty list.
Fallback == JArr(<<>>)

\* controllers/movieController.js safeParseJSON(str, fallback)
safeParseJSON(str, fallback) ==
    IF str.type = "string"
       /\ (startsWith(trim(str.text), "[") \/ startsWith(trim(str.text), "{"))
    THEN JSON_parse(str.text)
    ELSE [threw |-> FALSE, value |-> fallback]

\* What a controller answers: the status, and the body's kind (a JSON
\* payload, {error: text} or {message: text}).
NoResponse == [status |-> 0, kind |-> "none", text |-> "", data |-> <<>>]
ErrorResponse(msg) == [status |-> 500, kind |-> "error", text |-> msg, data |-> <<>>]
NotFoundResponse == [status |-> 404, kind |-> "message", text |-> "Movie not found", data |-> <<>>]
JsonResponse(rows) == [status |-> 200, kind |-> "json", text |-> "", data |-> rows]

\* ------------------------------------------------------- the two stores

RECURSIVE GroupedDigits(_)
\* printf('%,d', n) for n >= 0: the decimal digits of n, grouped by
\* thousands with commas.
GroupedDigits(n) ==
    IF n < 1000
    THEN IF n < 10 THEN <<DigitChar(n)>>
         ELSE IF n < 100 THEN <<DigitChar(n \div 10), DigitChar(n % 10)>>
         ELSE <<DigitChar(n \div 100), DigitChar((n \div 10) % 10), DigitChar(n % 10)>>
    ELSE GroupedDigits(n \div 1000)
         \o <<",", DigitChar((n % 1000) \div 100),
              DigitChar((n \div 10) % 10), DigitChar(n % 10)>>

\* The SQL expression '$' || printf('%,d', budget)
FormatBudget(n) == <<"$">> \o (IF n < 0 THEN <<"-">> \o GroupedDigits(-n) ELSE GroupedDigits(n))

\* Sample column values of the primary store.
GenresDrama == <<"[", "\"", "D", "r", "a", "m", "a", "\"", "]">>
GenresTwo == <<"[", "\"", "A", "\"", ",", " ", "\"", "D", "\"", "]">>
GenresBroken == <<"[", "D", "r", "a", "m", "a">>
GenresPlain == <<"D", "r", "a", "m", "a">>

\* Row i of the sample movies table (the on-disk file is not part of the
\* repository; rows differ in what the presentation layer has to decode).
MovieRow(i) ==
    [movieId |-> i,
     imdbId |-> <<"tt", i>>,
     title |-> <<"title", i>>,
     overview |-> <<"overview", i>>,
     releaseDate |-> <<1994 + (i % 2), 1 + ((i * 5) % 12), 1 + ((i * 7) % 28)>>,
     budget |-> 1000000 * (i - 1) + 500 * (i % 3),
     runtime |-> 90 + i,
     genres |-> CASE i % 4 = 1 -> Text(GenresDrama)
                  [] i % 4 = 2 -> Text(GenresTwo)
                  [] i % 4 = 3 -> Text(GenresBroken)
                  [] OTHER -> Null,
     language |-> IF i % 2 = 1 THEN Text(<<"e", "n">>) ELSE Null,
     productionCompanies |-> IF i % 3 = 0 THEN Text(GenresPlain) ELSE Text(<<"[", "]">>)]

\* The movies table with rows 1..n, in row order.
MoviesTable(n) == [i \in 1..n |-> MovieRow(i)]

\* The ratings table of the secondary store: (movieId, rating) rows.
RatingsTable == <<[movieId |-> 1, rating |-> 4], [movieId |-> 1, rating |-> 5],
                  [movieId |-> 2, rating |-> 3]>>

\* Number of rows of the primary store in the detail scenario.
NMovies == 3

\* SELECT AVG(rating) FROM ratingsDb.ratings WHERE ratings.movieId = m.movieId:
\* the sum and the count of the matching ratings (count 0 is SQL NULL).
RECURSIVE SumRatings(_, _)
SumRatings(rs, movieId) ==
    IF rs = <<>> THEN [sum |-> 0, n |-> 0]
    ELSE LET rest == SumRatings(Tail(rs), movieId)
         IN  IF Head(rs).movieId = movieId
             THEN [sum |-> rest.sum + Head(rs).rating, n |-> rest.n + 1]
             ELSE rest

\* The detail query's SELECT list for one movies row
\* (services/movieService.js getMovieDetails).
DetailRow(m, ratings) ==
    [imdb_id |-> m.imdbId,
     title |-> m.title,
     description |-> m.overview,
     release_date |-> m.releaseDate,
     budget |-> FormatBudget(m.budget),
     runtime |-> m.runtime,
     genres |-> m.genres,
     original_language |-> m.language,
     production_companies |-> m.productionCompanies,
     average_rating |-> SumRatings(ratings, m.movieId)]

\* db.get(query, [imdbId]): the rows the detail query selects, of which
\* db.get hands over the first (or undefined).
DetailRows(table, ratings, imdbId) ==
    SelectSeq([i \in 1..Len(table) |-> DetailRow(table[i], ratings)],
              LAMBDA d : d.imdb_id = imdbId)

\* ------------------------------------------------ query layer: lists

Min(a, b) == IF a < b THEN a ELSE b

\* The summary SELECT list of the three list queries for one movies row.
SummaryRow(m) ==
    [imdbId |-> m.imdbId,
     title |-> m.title,
     genres |-> m.genres,
     releaseDate |-> m.releaseDate,
     budget |-> FormatBudget(m.budget)]

\* SQL `LIMIT limit OFFSET offset` over rows in their order: a negative
\* limit is no limit, a negative offset is none.
LimitOffset(rows, limit, offset) ==
    LET o == IF offset < 0 THEN 0 ELSE offset
        hi == IF limit < 0 THEN Len(rows) ELSE Min(Len(rows), o + limit)
    IN  SubSeq(rows, o + 1, hi)

\* db.all of the listAllMovies query with its bound parameters: the first
\* `?` is the LIMIT, the second the OFFSET.
AllMoviesQuery(table, params) ==
    LimitOffset([i \in 1..Len(table) |-> SummaryRow(table[i])], params[1], params[2])

\* listAllMovies with its parameters swapped: [offset, pageSize].
listAllMoviesSwapped(table, page, pageSize) ==
    LET offset == (page - 1) * pageSize
        params == <<offset, pageSize>>
    IN  [threw |-> FALSE, params |-> params, rows |-> AllMoviesQuery(table, params)]

\* services/movieService.js listAllMovies(page, pageSize): the parameters
\* it binds and the rows the storage answers.
listAllMovies(table, page, pageSize) ==
    LET offset == (page - 1) * pageSize
        params == <<pageSize, offset>>
    IN  [threw |-> FALSE, params |-> params, rows |-> AllMoviesQuery(table, params)]

\* Letters of the ASCII alphabet, for case folding.
UpperLetters == <<"A", "B", "C", "D", "E", "F", "G", "H", "I", "J", "K", "L", "M",
                  "N", "O", "P", "Q", "R", "S", "T", "U", "V", "W", "X", "Y", "Z">>
LowerLetters == <<"a", "b", "c", "d", "e", "f", "g", "h", "i", "j", "k", "l", "m",
                  "n", "o", "p", "q", "r", "s", "t", "u", "v", "w", "x", "y", "z">>

\* The lower-case form of one character.
LowerChar(c) ==
    IF \E i \in 1..26 : UpperLetters[i] = c
    THEN LowerLetters[CHOOSE i \in 1..26 : UpperLetters[i] = c]
    ELSE c

\* String.prototype.toLowerCase
toLowerCase(s) == [i \in 1..Len(s) |-> LowerChar(s[i])]

\* A JavaScript argument that may be missing.
Undefined == [type |-> "undefined", text |-> <<>>]

\* The four-digit text of a year: strftime('%Y', releaseDate).
YearText(y) ==
    <<DigitChar(y \div 1000), DigitChar((y \div 100) % 10),
      DigitChar((y \div 10) % 10), DigitChar(y % 10)>>

\* Dates compare as their ISO text does: year, then month, then day.
DateLess(a, b) ==
    \/ a[1] < b[1]
    \/ a[1] = b[1] /\ a[2] < b[2]
    \/ a[1] = b[1] /\ a[2] = b[2] /\ a[3] < b[3]

RECURSIVE InsertByDate(_, _, _)
\* row inserted into rows, which are in the given order, after the rows
\* that do not come after it.
InsertByDate(row, rows, order) ==
    IF rows = <<>> THEN <<row>>
    ELSE IF (IF order = "DESC"
             THEN DateLess(Head(rows).releaseDate, row.releaseDate)
             ELSE DateLess(row.releaseDate, Head(rows).releaseDate))
    THEN <<row>> \o rows
    ELSE <<Head(rows)>> \o InsertByDate(row, Tail(rows), order)

RECURSIVE OrderByDate(_, _)
\* ORDER BY releaseDate ASC | DESC
OrderByDate(rows, order) ==
    IF rows = <<>> THEN <<>>
    ELSE InsertByDate(rows[Len(rows)], OrderByDate(SubSeq(rows, 1, Len(rows) - 1), order), order)

\* db.all of the getMoviesByYear query built with `order`, with its bound
\* parameters [year, limit, offset].
YearQuery(table, order, params) ==
    LET hits == SelectSeq(table, LAMBDA m : YearText(m.releaseDate[1]) = params[1])
        rows == [i \in 1..Len(hits) |-> SummaryRow(hits[i])]
    IN  LimitOffset(OrderByDate(rows, order), params[2], params[3])

\* services/movieService.js getMoviesByYear(year, page, sort, pageSize):
\* `sort.toLowerCase()` throws a TypeError when sort is not a string.
getMoviesByYear(table, year, page, sort, pageSize) ==
    LET offset == (page - 1) * pageSize
        params == <<year, pageSize, offset>>
    IN  IF sort.type # "string"
        THEN [threw |-> TRUE, order |-> "none", params |-> params, rows |-> <<>>]
        ELSE LET order == IF toLowerCase(sort.text) = <<"d", "e", "s", "c">>
                          THEN "DESC" ELSE "ASC"
             IN  [threw |-> FALSE, order |-> order, params |-> params,
                  rows |-> YearQuery(table, order, params)]

RECURSIVE Like(_, _)
\* SQLite's `text LIKE pattern` (no ESCAPE): % matches any run of
\* characters, _ any one character, letters match whatever their case.
Like(text, pattern) ==
    IF pattern = <<>> THEN text = <<>>
    ELSE IF Head(pattern) = "%"
    THEN \/ Like(text, Tail(pattern))
         \/ text # <<>> /\ Like(Tail(text), pattern)
    ELSE /\ text # <<>>
         /\ \/ Head(pattern) = "_"
            \/ LowerChar(Head(pattern)) = LowerChar(Head(text))
         /\ Like(Tail(text), Tail(pattern))

\* db.all of the getMoviesByGenre query with its bound parameters
\* [pattern, limit, offset]; NULL LIKE pattern is not true.
GenreQuery(table, params) ==
    LET hits == SelectSeq(table, LAMBDA m :
                    m.genres.type = "string" /\ Like(m.genres.text, params[1]))
        rows == [i \in 1..Len(hits) |-> SummaryRow(hits[i])]
    IN  LimitOffset(rows, params[2], params[3])

\* services/movieService.js getMoviesByGenre(genre, page, pageSize)
getMoviesByGenre(table, genre, page, pageSize) ==
    LET offset == (page - 1) * pageSize
        params == <<<<"%">> \o genre \o <<"%">>, pageSize, offset>>
    IN  [threw |-> FALSE, params |-> params, rows |-> GenreQuery(table, params)]

\* ------------------------------------- numerals in query parameters

RECURSIVE NumVal(_)
\* The number a run of digits denotes (0 for the empty run).
NumVal(ds) ==
    IF ds = <<>> THEN 0
    ELSE NumVal(SubSeq(ds, 1, Len(ds) - 1)) * 10 + DigitVal(ds[Len(ds)])

RECURSIVE DigitsRunEnd(_, _)
\* The index after the run of digits starting at i.
DigitsRunEnd(s, i) ==
    IF i <= Len(s) /\ IsDigit(s[i]) THEN DigitsRunEnd(s, i + 1) ELSE i

RECURSIVE SkipSpaces(_, _)
\* The index of the first character at or after i that is not white space.
SkipSpaces(s, i) ==
    IF i <= Len(s) /\ IsWhiteSpace(s[i]) THEN SkipSpaces(s, i + 1) ELSE i

RECURSIVE StripLeadingZeros(_)
StripLeadingZeros(ds) ==
    IF ds # <<>> /\ Head(ds) = "0" THEN StripLeadingZeros(Tail(ds)) ELSE ds

\* A sign character is at index i; a minus sign is at index i.
HasSignAt(s, i) == i <= Len(s) /\ s[i] \in {"+", "-"}
IsNegAt(s, i) == i <= Len(s) /\ s[i] = "-"

\* The index after the optional sign at index i.
AfterSign(s, i) == IF HasSignAt(s, i) THEN i + 1 ELSE i

\* The numeral read so far, at its end e3: ok when there is a mantissa,
\* the exponent (if any) has digits, and only white space follows.
\* digits: the significant digits of the mantissa; shift: the power of ten
\* they are to be scaled by.
NumeralEnd(s, neg, int, frac, expOk, exp, e3) ==
    [ok |-> (int # <<>> \/ frac # <<>>) /\ expOk /\ SkipSpaces(s, e3) = Len(s) + 1,
     neg |-> neg,
     digits |-> StripLeadingZeros(int \o frac),
     shift |-> exp - Len(frac)]

\* The digits of the exponent from e2 on, after its sign.
NumeralExpDigits(s, neg, int, frac, expNeg, e2) ==
    NumeralEnd(s, neg, int, frac, DigitsRunEnd(s, e2) > e2,
               IF expNeg THEN -NumVal(SubSeq(s, e2, DigitsRunEnd(s, e2) - 1))
               ELSE NumVal(SubSeq(s, e2, DigitsRunEnd(s, e2) - 1)),
               DigitsRunEnd(s, e2))

\* The optional exponent at i3: e or E, a sign, digits.
NumeralExp(s, neg, int, frac, i3) ==
    IF i3 <= Len(s) /\ s[i3] \in {"e", "E"}
    THEN NumeralExpDigits(s, neg, int, frac, IsNegAt(s, i3 + 1), AfterSign(s, i3 + 1))
    ELSE NumeralEnd(s, neg, int, frac, TRUE, 0, i3)

\* The optional fraction at i2, after the integer digits s[i1..i2-1].
NumeralFrac(s, neg, i1, i2) ==
    IF i2 <= Len(s) /\ s[i2] = "."
    THEN NumeralExp(s, neg, SubSeq(s, i1, i2 - 1),
                    SubSeq(s, i2 + 1, DigitsRunEnd(s, i2 + 1) - 1),
                    DigitsRunEnd(s, i2 + 1))
    ELSE NumeralExp(s, neg, SubSeq(s, i1, i2 - 1), <<>>, i2)

\* The numeral from its sign at i0 on.
NumeralFrom(s, i0) ==
    NumeralFrac(s, IsNegAt(s, i0), AfterSign(s, i0), DigitsRunEnd(s, AfterSign(s, i0)))

\* The text read as a decimal numeral, the way the validation library's
\* number pattern reads it: white space, a sign, digits with an optional
\* fraction (or a fraction alone), an optional exponent, white space.
ParseNumeral(s) == NumeralFrom(s, SkipSpaces(s, 1))

\* The numeral denotes zero.
NumeralIsZero(n) == n.digits = <<>>

\* The number of digits of the integer part of the numeral's value (not
\* positive when the value is below one).
Magnitude(n) == Len(n.digits) + n.shift

\* The numeral's value is a whole number.
NumeralIsInteger(n) ==
    \/ NumeralIsZero(n)
    \/ n.shift >= 0
    \/ /\ -n.shift < Len(n.digits)
       /\ NumVal(SubSeq(n.digits, Len(n.digits) + n.shift + 1, Len(n.digits))) = 0

\* The numeral's value is at least 1.
NumeralAtLeast1(n) == ~n.neg /\ ~NumeralIsZero(n) /\ Magnitude(n) >= 1

\* Number.MAX_SAFE_INTEGER has this many digits; beyond it the validation
\* library refuses a number as unsafe.
MaxSafeDigits == 16

\* The numeral's value is beyond Number.MAX_SAFE_INTEGER (9007199254740991).
NumeralUnsafe(n) ==
    /\ ~NumeralIsZero(n)
    /\ \/ Magnitude(n) > MaxSafeDigits
       \/ /\ Magnitude(n) = MaxSafeDigits
          /\ Head(n.digits) = "9"
          /\ Len(n.digits) >= 4
          /\ NumVal(SubSeq(n.digits, 1, 4)) > 9007

\* A JavaScript number that may be NaN.
NaN == [nan |-> TRUE, n |-> 0]
Num(n) == [nan |-> FALSE, n |-> n]

\* The integer the digits from i1 on denote, NaN without a digit.
ParseIntDigits(s, neg, i1) ==
    IF DigitsRunEnd(s, i1) = i1 THEN NaN
    ELSE IF neg THEN Num(-NumVal(SubSeq(s, i1, DigitsRunEnd(s, i1) - 1)))
    ELSE Num(NumVal(SubSeq(s, i1, DigitsRunEnd(s, i1) - 1)))

\* The integer read from the sign at i0 on.
ParseIntFrom(s, i0) == ParseIntDigits(s, IsNegAt(s, i0), AfterSign(s, i0))

\* parseInt(v): NaN for undefined; for a text, the integer its longest
\* prefix of white space, sign and digits denotes, NaN without a digit.
parseInt(v) ==
    IF v.type # "string" THEN NaN ELSE ParseIntFrom(v.text, SkipSpaces(v.text, 1))

\* `x || d` for a number x: d when x is NaN or 0.
OrDefault(x, d) == IF x.nan \/ x.n = 0 THEN d ELSE x.n

\* ------------------------------------- routes: validation of the query

NoViolation == "none"

\* Joi.number().integer().min(1).optional() on one query value: the rule
\* it violates, or none. A query value is undefined or a text.
NumberRule(v) ==
    IF v.type = "undefined" THEN NoViolation
    ELSE LET n == ParseNumeral(v.text)
         IN  IF ~n.ok THEN "number.base"
             ELSE IF NumeralUnsafe(n) THEN "number.unsafe"
             ELSE IF ~NumeralIsInteger(n) THEN "number.integer"
             ELSE IF ~NumeralAtLeast1(n) THEN "number.min"
             ELSE NoViolation

\* Joi.string().valid('asc', 'desc').optional() on one query value.
SortRule(v) ==
    IF v.type = "undefined" THEN NoViolation
    ELSE IF v.text \in {<<"a", "s", "c">>, <<"d", "e", "s", "c">>} THEN NoViolation
    ELSE "any.only"

\* querySchema.validate(req.query): the first violation in the order of
\* the schema's keys, as [key, rule], or none.
querySchemaValidate(query) ==
    IF NumberRule(query.page) # NoViolation THEN <<"page", NumberRule(query.page)>>
    ELSE IF NumberRule(query.pageSize) # NoViolation
    THEN <<"pageSize", NumberRule(query.pageSize)>>
    ELSE IF SortRule(query.sort) # NoViolation THEN <<"sort", SortRule(query.sort)>>
    ELSE <<NoViolation, NoViolation>>

BadRequestResponse(msg) == [status |-> 400, kind |-> "error", text |-> msg, data |-> <<>>]

\* A route registered without the validateQuery middleware: next() always.
validateQueryMissing(query) == [next |-> TRUE, res |-> NoResponse]

\* validateQuery(req, res, next): answers 400 with the violation's message,
\* or calls next().
validateQuery(query) ==
    LET error == querySchemaValidate(query)
    IN  IF error[1] # NoViolation
        THEN [next |-> FALSE, res |-> BadRequestResponse(error)]
        ELSE [next |-> TRUE, res |-> NoResponse]

\* ------------------------------------------- connection manager (db.js)

NoError == "null"
AlreadyInUse == "SQLITE_ERROR: database ratingsDb is already in use"
CantOpen == "SQLITE_CANTOPEN: unable to open database"
NoSuchTable == "SQLITE_ERROR: no such table: ratingsDb.ratings"
IoError == "SQLITE_IOERR: disk I/O error"
SyntaxError == "SyntaxError: Unexpected token in JSON"

\* What the storage engine can answer to ATTACH ... AS ratingsDb: an alias
\* that is already attached is refused; otherwise the file opens (it is
\* created when it does not exist, then without a ratings table) or not.
EngineAttachOutcomes ==
    IF engineAttached THEN {AlreadyInUse} ELSE {NoError, CantOpen}

\* attachRatingsDb without its guard `if (ratingsAttached) return;`: every
\* call issues the ATTACH.
attachRatingsDbNoGuard(r) ==
    /\ attachCalls' = [attachCalls EXCEPT ![r] = @ + 1]
    /\ attachResult' = [attachResult EXCEPT ![r] = "pending"]
    /\ execInFlight' = execInFlight \cup {r}
    /\ execCalls' = execCalls + 1
    /\ overlapped' = overlapped \cup {{r, q} : q \in execInFlight}
    /\ issuedExec' = [issuedExec EXCEPT ![r] = TRUE]
    /\ UNCHANGED <<ratingsAttached, engineAttached, movies, ratingsTableExists>>

\* attachRatingsDb() called by request r, up to its first suspension:
\* return at once when the flag is set, else issue db.exec(ATTACH ...).
attachRatingsDb(r) ==
    /\ attachCalls' = [attachCalls EXCEPT ![r] = @ + 1]
    /\ IF ratingsAttached
       THEN /\ attachResult' = [attachResult EXCEPT ![r] = "resolved"]
            /\ UNCHANGED <<execInFlight, execCalls, overlapped, issuedExec>>
       ELSE /\ attachResult' = [attachResult EXCEPT ![r] = "pending"]
            /\ execInFlight' = execInFlight \cup {r}
            /\ execCalls' = execCalls + 1
            /\ overlapped' = overlapped \cup {{r, q} : q \in execInFlight}
            /\ issuedExec' = [issuedExec EXCEPT ![r] = TRUE]
    /\ UNCHANGED <<ratingsAttached, engineAttached, movies, ratingsTableExists>>

\* The callback of db.exec for request r with the engine's answer err:
\* reject(err), or set the flag and resolve().
execCallback(r, err) ==
    /\ execInFlight' = execInFlight \ {r}
    /\ engineAttached' = (engineAttached \/ err = NoError)
    /\ IF err # NoError
       THEN /\ attachResult' = [attachResult EXCEPT ![r] = "rejected"]
            /\ attachErr' = [attachErr EXCEPT ![r] = err]
            /\ UNCHANGED ratingsAttached
       ELSE /\ ratingsAttached' = TRUE
            /\ attachResult' = [attachResult EXCEPT ![r] = "resolved"]
            /\ UNCHANGED attachErr
    /\ UNCHANGED <<execCalls, movies, ratingsTableExists>>

\* ------------------------------------------ query layer: getMovieDetails

\* The part of the service's getMovieDetails after `await attachRatingsDb()`:
\* db.getAsync(query, [imdbId]).
issueGet(r, imdbId) ==
    /\ getCalls' = [getCalls EXCEPT ![r] = @ + 1]
    /\ getParams' = [getParams EXCEPT ![r] = <<imdbId>>]
    /\ attachedAtGet' = [attachedAtGet EXCEPT ![r] = ratingsAttached' /\ engineAttached']
    /\ pc' = [pc EXCEPT ![r] = "querying"]

\* -------------------------------------- presentation: getMovieDetails

Unknown == Text(<<"U", "n", "k", "n", "o", "w", "n">>)

\* The controller's getMovieDetails once the service's promise settled
\* with err or with the rows db.get found.
detailResponse(err, rows) ==
    IF err # NoError THEN ErrorResponse(err)
    ELSE IF rows = <<>> THEN NotFoundResponse
    ELSE LET details == rows[1]
             g == safeParseJSON(details.genres, Fallback)
             c == safeParseJSON(details.production_companies, Fallback)
         IN  IF g.threw \/ c.threw THEN ErrorResponse(SyntaxError)
             ELSE JsonResponse(<<[details EXCEPT
                      !.genres = g.value,
                      !.production_companies = c.value,
                      !.original_language =
                          IF @.type = "null" \/ @.text = <<>> THEN Unknown ELSE @]>>)

\* getMovieDetails without the `await` before attachRatingsDb(): the query
\* is issued whatever the state of the attach promise.
afterAttachNoAwait(r, imdbId) ==
    /\ issueGet(r, imdbId)
    /\ UNCHANGED response

\* What follows the attach promise of request r in the service and the
\* controller: the query once it resolved, the 500 answer once it rejected
\* (the rejection passes through the service to the controller's catch),
\* and the suspension at the await while it is pending.
afterAttach(r, imdbId) ==
    IF attachResult'[r] = "resolved"
    THEN /\ issueGet(r, imdbId)
         /\ UNCHANGED response
    ELSE IF attachResult'[r] = "rejected"
    THEN /\ pc' = [pc EXCEPT ![r] = "done"]
         /\ response' = [response EXCEPT ![r] = detailResponse(attachErr'[r], <<>>)]
         /\ UNCHANGED <<getCalls, getParams, attachedAtGet>>
    ELSE /\ pc' = [pc EXCEPT ![r] = "attaching"]
         /\ UNCHANGED <<getCalls, getParams, attachedAtGet, response>>

\* ------------------------------------------------- the detail scenario

\* The ids a detail request may carry: those of the table and one unknown.
Ids == {<<"tt", i>> : i \in 0..NMovies}

\* GET /:id arrives: the controller calls the service, which calls
\* attachRatingsDb and, when that returned at once, issues the query.
Request(r) ==
    /\ pc[r] = "idle"
    /\ \E id \in Ids :
        /\ reqId' = [reqId EXCEPT ![r] = id]
        /\ attachRatingsDb(r)
        /\ afterAttach(r, id)
    /\ failedBefore' = [failedBefore EXCEPT ![r] = lastAttachFailed]
    /\ UNCHANGED <<attachErr, firstDone, ioFailed, flagAtFail, lastAttachFailed,
                   callVars>>

\* The engine answers the ATTACH of request r and the callback runs; the
\* promise chain then issues the query or answers 500.
AttachCallback(r) ==
    /\ r \in execInFlight
    /\ \E err \in EngineAttachOutcomes :
        /\ execCallback(r, err)
        /\ firstDone' = TRUE
        /\ lastAttachFailed' = (err # NoError)
        /\ ioFailed' = (ioFailed \/ err = CantOpen)
        /\ afterAttach(r, reqId[r])
        /\ flagAtFail' = [flagAtFail EXCEPT ![r] = (err # NoError /\ ratingsAttached')]
    /\ UNCHANGED <<reqId, attachCalls, overlapped, failedBefore, issuedExec,
                   callVars>>

\* What the storage engine can answer to the detail query: it finds no
\* table ratingsDb.ratings when the alias is not attached or the attached
\* file has no such table; otherwise it runs the query or fails on its own.
EngineGetOutcomes ==
    IF engineAttached /\ ratingsTableExists
    THEN {NoError, IoError}
    ELSE {NoSuchTable}

\* The engine answers the detail query of request r; the controller shapes
\* the answer.
GetCallback(r) ==
    /\ pc[r] = "querying"
    /\ \E err \in EngineGetOutcomes :
        response' = [response EXCEPT ![r] =
            detailResponse(err, DetailRows(movies, RatingsTable, getParams[r][1]))]
    /\ pc' = [pc EXCEPT ![r] = "done"]
    /\ UNCHANGED <<dbVars, reqId, attachCalls, attachResult, attachErr,
                   getCalls, getParams, attachedAtGet, histVars, callVars>>

\* The process after start-up, before any detail request.
AttachInit ==
    /\ ratingsAttached = FALSE
    /\ engineAttached = FALSE
    /\ execInFlight = {}
    /\ execCalls = 0
    /\ pc = [r \in Req |-> "idle"]
    /\ reqId = [r \in Req |-> <<"tt", 0>>]
    /\ attachCalls = [r \in Req |-> 0]
    /\ attachResult = [r \in Req |-> "none"]
    /\ attachErr = [r \in Req |-> NoError]
    /\ getCalls = [r \in Req |-> 0]
    /\ getParams = [r \in Req |-> <<>>]
    /\ attachedAtGet = [r \in Req |-> FALSE]
    /\ response = [r \in Req |-> NoResponse]
    /\ firstDone = FALSE
    /\ overlapped = {}
    /\ ioFailed = FALSE
    /\ flagAtFail = [r \in Req |-> FALSE]
    /\ failedBefore = [r \in Req |-> FALSE]
    /\ issuedExec = [r \in Req |-> FALSE]
    /\ lastAttachFailed = FALSE

NoCall == [op |-> "none"]
NoRequest == [route |-> "none"]

\* No request on a list route.
RouteIdle ==
    /\ rq = NoRequest
    /\ rqpc = "none"
    /\ svcCall = NoCall
    /\ storageCalls = 0
    /\ rqRes = NoResponse

\* The detail scenario at rest, over a secondary store that has its table.
DetailInit == AttachInit /\ RouteIdle /\ ratingsTableExists = TRUE

\* The secondary store's file has the ratings table or not.
Init ==
    /\ AttachInit
    /\ RouteIdle
    /\ ratingsTableExists \in BOOLEAN
    /\ movies = MoviesTable(NMovies)
    /\ call = NoCall
    /\ out = <<>>

Next ==
    \E r \in Req : Request(r) \/ AttachCallback(r) \/ GetCallback(r)

Spec == Init /\ [][Next]_vars

\* --------------------------------------- claims on the detail scenario

\* C1: of the attachRatingsDb calls that start before the first ATTACH has
\* completed, at most one issues db.exec: until an ATTACH callback has
\* fired, db.exec has been called at most once.
C1_SingleAttach == ~firstDone => execCalls <= 1

\* C2: when two attachRatingsDb calls ran concurrently and the secondary
\* store ended up attached (the engine failing no ATTACH for a reason of its
\* own, only refusing an alias that is already attached), both callers'
\* promises resolved.
C2_BothObserveSuccess ==
    \A p \in overlapped :
        (/\ ratingsAttached
         /\ ~ioFailed
         /\ \A r \in p : attachResult[r] \in {"resolved", "rejected"})
        => \A r \in p : attachResult[r] = "resolved"

\* C3: when the ATTACH of a request fails, its attachRatingsDb rejects with
\* that failure, the flag is false afterwards, the request's detail query
\* is not run, the controller answers 500 with the failure's message, and
\* an attachRatingsDb call that comes after a failed ATTACH issues the
\* ATTACH again.
C3_FailurePropagates ==
    \A r \in Req :
        /\ attachResult[r] = "rejected" =>
              /\ attachErr[r] # NoError
              /\ pc[r] = "done"
              /\ response[r] = ErrorResponse(attachErr[r])
              /\ getCalls[r] = 0
              /\ flagAtFail[r] = FALSE
        /\ (attachCalls[r] = 1 /\ failedBefore[r]) => issuedExec[r]

\* C4: the detail query of a request is issued only after the request's own
\* attachRatingsDb call resolved, with the secondary store attached at that
\* moment; every started request has called attachRatingsDb exactly once,
\* and db.get exactly once with [imdbId] as its parameters as soon as the
\* attach resolved (and not at all otherwise); over a secondary store that
\* has its ratings table, no request is answered "no such table".
C4_QueryAfterAttach ==
    \A r \in Req :
        /\ attachCalls[r] = (IF pc[r] = "idle" THEN 0 ELSE 1)
        /\ getCalls[r] = (IF attachResult[r] = "resolved" THEN 1 ELSE 0)
        /\ getCalls[r] = 1 =>
              /\ attachedAtGet[r]
              /\ ratingsAttached /\ engineAttached
              /\ getParams[r] = <<reqId[r]>>
        /\ ratingsTableExists => response[r].text # NoSuchTable

\* C4's case: a request was answered from the query after its own ATTACH
\* succeeded, while another request's attach failed and ran no query.
C4_Witness ==
    \E r, q \in Req :
        /\ response[r].status = 200 /\ issuedExec[r] /\ getCalls[r] = 1
        /\ attachResult[q] = "rejected" /\ pc[q] = "done" /\ getCalls[q] = 0

\* C5: ratingsAttached starts false, changes only from false to true and
\* only in the callback of a successful ATTACH, and never returns to false;
\* once it is true, an attachRatingsDb call resolves without a storage
\* operation of its own (no db.exec is issued).
C5_Monotonic ==
    /\ ratingsAttached = FALSE
    /\ [][/\ ratingsAttached => ratingsAttached'
          /\ ratingsAttached' # ratingsAttached =>
                \E r \in execInFlight :
                    /\ r \notin execInFlight'
                    /\ attachResult'[r] = "resolved"
                    /\ attachErr'[r] = NoError
                    /\ engineAttached'
          /\ \A r \in Req :
                (ratingsAttached /\ attachCalls'[r] = attachCalls[r] + 1) =>
                    /\ execCalls' = execCalls
                    /\ execInFlight' = execInFlight
                    /\ attachResult'[r] = "resolved"]_vars

\* C5's case: with the flag set, a request called attachRatingsDb, which
\* resolved without issuing db.exec.
C5_Witness ==
    \E r \in Req :
        /\ ratingsAttached
        /\ attachCalls[r] = 1 /\ attachResult[r] = "resolved" /\ ~issuedExec[r]

\* --------------------------------------- direct calls of listAllMovies

\* Largest number of rows of the movies table, first page and page size of
\* the direct calls.
MaxRows == 6
MaxPage == 3
MaxPageSize == 3

\* The detail scenario's variables, which the direct calls leave alone.
attachVars == <<ratingsAttached, engineAttached, execInFlight, execCalls,
                ratingsTableExists, reqVars, histVars>>
detailVars == <<attachVars, routeVars>>

InitList ==
    /\ DetailInit
    /\ \E n \in 0..MaxRows : movies = MoviesTable(n)
    /\ \E page \in 1..MaxPage, pageSize \in 1..MaxPageSize :
          call = [op |-> "listAllMovies", page |-> page, pageSize |-> pageSize]
    /\ out = <<>>

\* listAllMovies(page, pageSize) is called and its result kept; the next
\* call asks for the following page.
CallListAll ==
    /\ call.op = "listAllMovies"
    /\ Len(out) < 2
    /\ out' = Append(out, [page |-> call.page,
                           res |-> listAllMovies(movies, call.page, call.pageSize)])
    /\ call' = [call EXCEPT !.page = @ + 1]
    /\ UNCHANGED <<detailVars, movies>>

NextList == CallListAll

SpecList == InitList /\ [][NextList]_vars

\* The imdbIds of rows.
IdsOf(rows) == {rows[i].imdbId : i \in 1..Len(rows)}

\* C7: for page >= 1 and pageSize >= 1 listAllMovies binds [pageSize,
\* (page-1)*pageSize], in that order, returns at most pageSize rows, namely
\* the rows of the table at positions (page-1)*pageSize+1 .. page*pageSize,
\* and the ids of page k and of page k+1 of an unchanged table are disjoint.
C7_Pagination ==
    /\ \A i \in 1..Len(out) :
          LET p == out[i].page
              ps == call.pageSize
              r == out[i].res
          IN  /\ ~r.threw
              /\ r.params = <<ps, (p - 1) * ps>>
              /\ Len(r.rows) <= ps
              /\ \A j \in 1..Len(r.rows) :
                    r.rows[j].imdbId = movies[(p - 1) * ps + j].imdbId
              /\ Len(r.rows) = Min(ps, Len(movies) - (p - 1) * ps)
                 \/ (Len(r.rows) = 0 /\ Len(movies) <= (p - 1) * ps)
    /\ Len(out) = 2 =>
          /\ out[2].page = out[1].page + 1
          /\ IdsOf(out[1].res.rows) \cap IdsOf(out[2].res.rows) = {}

\* C7's case: page k is full, page k+1 holds rows too, for a page k > 1 and
\* a page size > 1.
C7_Witness ==
    /\ Len(out) = 2
    /\ out[1].page > 1 /\ call.pageSize > 1
    /\ Len(out[1].res.rows) = call.pageSize
    /\ Len(out[2].res.rows) > 0

\* -------------------------------------- direct calls of getMoviesByYear

\* The sort arguments tried: missing, and texts in several letter cases.
SortArgs ==
    {Undefined, Text(<<>>), Text(<<"a", "s", "c">>), Text(<<"d", "e", "s", "c">>),
     Text(<<"D", "E", "S", "C">>), Text(<<"D", "e", "s", "c">>), Text(<<"u", "p">>)}

InitYear ==
    /\ DetailInit
    /\ \E n \in 0..MaxRows : movies = MoviesTable(n)
    /\ \E year \in {YearText(1994), YearText(1995)}, page \in 1..MaxPage,
          sort \in SortArgs, pageSize \in 1..MaxPageSize :
          call = [op |-> "getMoviesByYear", year |-> year, page |-> page,
                  sort |-> sort, pageSize |-> pageSize]
    /\ out = <<>>

\* getMoviesByYear(year, page, sort, pageSize) is called and its result kept.
CallByYear ==
    /\ call.op = "getMoviesByYear"
    /\ out = <<>>
    /\ out' = <<getMoviesByYear(movies, call.year, call.page, call.sort, call.pageSize)>>
    /\ UNCHANGED <<detailVars, movies, call>>

NextYear == CallByYear

SpecYear == InitYear /\ [][NextYear]_vars

\* rows are in ascending (descending) order of release date.
Ascending(rows) ==
    \A i, j \in 1..Len(rows) : i < j => ~DateLess(rows[j].releaseDate, rows[i].releaseDate)
Descending(rows) ==
    \A i, j \in 1..Len(rows) : i < j => ~DateLess(rows[i].releaseDate, rows[j].releaseDate)

\* C8: getMoviesByYear returns its rows ordered by release date, descending
\* exactly when sort is "desc" in any letter case and ascending for every
\* other sort, a missing (undefined) sort included.
C8_SortOrder ==
    out # <<>> =>
        LET r == out[1]
            desc == call.sort.type = "string"
                    /\ toLowerCase(call.sort.text) = <<"d", "e", "s", "c">>
        IN  /\ ~r.threw
            /\ r.order = (IF desc THEN "DESC" ELSE "ASC")
            /\ IF desc THEN Descending(r.rows) ELSE Ascending(r.rows)

\* ------------------------------------- direct calls of getMoviesByGenre

\* Longest genre argument and stored genre text of the direct calls.
MaxGenreLen == 2

\* The characters of the genre arguments and of the stored genre texts:
\* one letter in both cases and the two LIKE wildcards.
GenreAlphabet == {"D", "d", "%", "_"}

\* The texts of at most n characters over alphabet.
TextsUpTo(alphabet, n) == UNION {[1..k -> alphabet] : k \in 0..n}

\* The stored genres values: NULL and the texts.
GenreValues == {Null} \cup {Text(t) : t \in TextsUpTo(GenreAlphabet, MaxGenreLen)}

InitGenre ==
    /\ DetailInit
    /\ \E g1, g2 \in GenreValues :
          movies = <<[MovieRow(1) EXCEPT !.genres = g1], [MovieRow(2) EXCEPT !.genres = g2]>>
    /\ \E genre \in TextsUpTo(GenreAlphabet, MaxGenreLen), pageSize \in 1..2 :
          call = [op |-> "getMoviesByGenre", genre |-> genre, page |-> 1,
                  pageSize |-> pageSize]
    /\ out = <<>>

\* getMoviesByGenre(genre, page, pageSize) is called and its result kept.
CallByGenre ==
    /\ call.op = "getMoviesByGenre"
    /\ out = <<>>
    /\ out' = <<getMoviesByGenre(movies, call.genre, call.page, call.pageSize)>>
    /\ UNCHANGED <<detailVars, movies, call>>

NextGenre == CallByGenre

SpecGenre == InitGenre /\ [][NextGenre]_vars

\* sub occurs verbatim (case-sensitively) in text.
Contains(text, sub) ==
    \E i \in 1..(Len(text) - Len(sub) + 1) : SubSeq(text, i, i + Len(sub) - 1) = sub

\* C10: getMoviesByGenre returns, within the page window, exactly the movies
\* whose stored genre text contains genre as a literal, case-sensitive
\* substring, whatever the letter case of genre and also when genre
\* contains % or _.
C10_LiteralSubstring ==
    out # <<>> =>
        LET literal == SelectSeq(movies, LAMBDA m :
                           m.genres.type = "string" /\ Contains(m.genres.text, call.genre))
            window == LimitOffset(literal, call.pageSize, (call.page - 1) * call.pageSize)
        IN  [i \in 1..Len(out[1].rows) |-> out[1].rows[i].imdbId]
            = [i \in 1..Len(window) |-> window[i].imdbId]

\* ---------------------------------------- direct calls of safeParseJSON

\* Longest stored text handed to safeParseJSON.
MaxJsonLen == 3

\* The characters of the stored texts: JSON punctuation, white space, a
\* letter and a digit.
JsonAlphabet == {"[", "]", "{", "}", "\"", ",", ":", " ", "a", "1"}

\* Longer stored texts: an object with a repeated key, one whose second
\* key is an array index, and one that is cut short.
ObjectTexts ==
    {<<"{", "\"", "a", "\"", ":", "1", ",", "\"", "a", "\"", ":", "[", "1", "]", "}">>,
     <<"{", "\"", "a", "\"", ":", "\"", "a", "\"", ",", "\"", "1", "\"", ":", "[", "1", ",", "{", "}", "]", "}">>,
     <<"{", "\"", "1", "1", "\"", ":", "1", ",", "\"", "a", "\"", ":", "1", ",", "\"", "1", "\"", ":", "[", "]">>}

\* The stored values handed to safeParseJSON: NULL, a number, texts.
ParseInputs ==
    {Null, Number(<<"1">>)}
    \cup {Text(t) : t \in TextsUpTo(JsonAlphabet, MaxJsonLen) \cup ObjectTexts}

InitParse ==
    /\ DetailInit
    /\ movies = <<>>
    /\ \E str \in ParseInputs : call = [op |-> "safeParseJSON", str |-> str]
    /\ out = <<>>

\* safeParseJSON(str, []) is called and its outcome kept.
CallSafeParse ==
    /\ call.op = "safeParseJSON"
    /\ out = <<>>
    /\ out' = <<safeParseJSON(call.str, Fallback)>>
    /\ UNCHANGED <<detailVars, movies, call>>

NextParse == CallSafeParse

SpecParse == InitParse /\ [][NextParse]_vars

\* C9: safeParseJSON never throws, and returns the empty-list fallback when
\* the stored value is absent, not a text, a text that does not start with
\* [ or {, or a text that is not valid JSON.
C9_NeverThrows ==
    out # <<>> =>
        /\ ~out[1].threw
        /\ (\/ call.str.type # "string"
            \/ ~(startsWith(trim(call.str.text), "[") \/ startsWith(trim(call.str.text), "{"))
            \/ JSON_parse(call.str.text).threw)
           => out[1].value = Fallback

\* --------------------------------------------------- the list routes

\* The controllers' default page size: `parseInt(req.query.pageSize) || 50`.
DefaultPageSize == 50

\* `req.query.sort || 'asc'`: the default for a missing or empty sort.
SortOrDefault(v) ==
    IF v.type = "undefined" \/ v.text = <<>> THEN Text(<<"a", "s", "c">>) ELSE v

\* The query-layer call a list controller makes for a request: the
\* controller's listAllMovies, getMoviesByYear or getMoviesByGenre up to
\* its `await movieService...`.
controllerCall(req) ==
    LET page == OrDefault(parseInt(req.query.page), 1)
        pageSize == OrDefault(parseInt(req.query.pageSize), DefaultPageSize)
    IN  IF req.route = "/"
        THEN [op |-> "listAllMovies", arg |-> <<>>, page |-> page,
              sort |-> Undefined, pageSize |-> pageSize]
        ELSE IF req.route = "/year/:year"
        THEN [op |-> "getMoviesByYear", arg |-> req.param, page |-> page,
              sort |-> SortOrDefault(req.query.sort), pageSize |-> pageSize]
        ELSE [op |-> "getMoviesByGenre", arg |-> req.param, page |-> page,
              sort |-> Undefined, pageSize |-> pageSize]

\* The query-layer function of a call, applied.
serviceResult(table, c) ==
    IF c.op = "listAllMovies"
    THEN [threw |-> FALSE, rows |-> listAllMovies(table, c.page, c.pageSize).rows]
    ELSE IF c.op = "getMoviesByYear"
    THEN LET r == getMoviesByYear(table, c.arg, c.page, c.sort, c.pageSize)
         IN  [threw |-> r.threw, rows |-> r.rows]
    ELSE [threw |-> FALSE, rows |-> getMoviesByGenre(table, c.arg, c.page, c.pageSize).rows]

TypeError == "TypeError: Cannot read properties of undefined (reading 'toLowerCase')"

\* A list controller once the service's promise settled with err or with
\* rows: each row's genres are decoded; a throwing decode is caught and
\* answered 500.
listResponse(err, rows) ==
    IF err # NoError THEN ErrorResponse(err)
    ELSE IF \E i \in 1..Len(rows) : safeParseJSON(rows[i].genres, Fallback).threw
    THEN ErrorResponse(SyntaxError)
    ELSE JsonResponse([i \in 1..Len(rows) |->
             [rows[i] EXCEPT !.genres = safeParseJSON(@, Fallback).value]])

\* Longest text of a page or pageSize query value.
MaxRawLen == 3

\* The characters of the page and pageSize texts: digits, a sign, a decimal
\* point, an exponent mark, white space and a letter.
RawAlphabet == {"0", "1", "2", "-", ".", "e", " ", "a"}

\* The values a page or pageSize query key may have: missing, or a text.
RawValues == {Undefined} \cup {Text(t) : t \in TextsUpTo(RawAlphabet, MaxRawLen)}

\* The values the other of the two keys has meanwhile.
FewRawValues == {Undefined, Text(<<"2">>), Text(<<"0">>)}

\* The values of the sort query key.
SortValues ==
    {Undefined, Text(<<>>), Text(<<"a", "s", "c">>), Text(<<"d", "e", "s", "c">>),
     Text(<<"D", "E", "S", "C">>)}

\* The list routes with the path parameter each request carries.
ListRoutes ==
    {[route |-> "/", param |-> <<>>],
     [route |-> "/year/:year", param |-> YearText(1995)],
     [route |-> "/genre/:genre", param |-> <<"D", "r", "a", "m">>]}

InitRoutes ==
    /\ AttachInit
    /\ ratingsTableExists = TRUE
    /\ movies = MoviesTable(NMovies)
    /\ call = NoCall
    /\ out = <<>>
    /\ \E rt \in ListRoutes, a \in RawValues, b \in FewRawValues, sort \in SortValues,
          swap \in BOOLEAN :
          rq = [route |-> rt.route, param |-> rt.param,
                query |-> [page |-> IF swap THEN b ELSE a,
                           pageSize |-> IF swap THEN a ELSE b,
                           sort |-> sort]]
    /\ rqpc = "received"
    /\ svcCall = NoCall
    /\ storageCalls = 0
    /\ rqRes = NoResponse

\* A request arrives on a list route: validateQuery answers 400 or passes
\* it to the controller, which calls the service, which issues db.all.
ListRequest ==
    /\ rqpc = "received"
    /\ LET v == validateQuery(rq.query)
           c == controllerCall(rq)
       IN  IF ~v.next
           THEN /\ rqRes' = v.res
                /\ rqpc' = "done"
                /\ UNCHANGED <<svcCall, storageCalls>>
           ELSE /\ svcCall' = c
                /\ IF serviceResult(movies, c).threw
                   THEN /\ rqRes' = ErrorResponse(TypeError)
                        /\ rqpc' = "done"
                        /\ UNCHANGED storageCalls
                   ELSE /\ storageCalls' = storageCalls + 1
                        /\ rqpc' = "awaiting"
                        /\ UNCHANGED rqRes
    /\ UNCHANGED <<attachVars, movies, call, out, rq>>

\* The engine answers the request's db.all; the controller shapes the rows.
AllCallback ==
    /\ rqpc = "awaiting"
    /\ \E err \in {NoError, IoError} :
          rqRes' = listResponse(err, serviceResult(movies, svcCall).rows)
    /\ rqpc' = "done"
    /\ UNCHANGED <<attachVars, movies, call, out, rq, svcCall, storageCalls>>

NextRoutes == ListRequest \/ AllCallback

SpecRoutes == InitRoutes /\ [][NextRoutes]_vars

\* The text is a decimal numeral of an integer that is at least 1.
IntegerAtLeast1(t) ==
    LET n == ParseNumeral(t)
    IN  n.ok /\ NumeralIsInteger(n) /\ NumeralAtLeast1(n)

\* The request's query has a page or pageSize that is not an integer >= 1,
\* or a sort other than asc and desc.
BadQuery(q) ==
    \/ q.page.type # "undefined" /\ ~IntegerAtLeast1(q.page.text)
    \/ q.pageSize.type # "undefined" /\ ~IntegerAtLeast1(q.pageSize.text)
    \/ q.sort.type # "undefined" /\ q.sort.text \notin {<<"a", "s", "c">>, <<"d", "e", "s", "c">>}

\* C6: on the list routes a request with a bad query is answered 400 with
\* an error field, and neither a query-layer call nor a storage call is
\* made for it; a request that reaches the query layer does so with
\* page >= 1 and pageSize >= 1.
C6_ValidationBeforeStorage ==
    rqpc \in {"awaiting", "done"} =>
        /\ BadQuery(rq.query) =>
              /\ rqpc = "done"
              /\ rqRes.status = 400 /\ rqRes.kind = "error" /\ rqRes.text[1] # NoViolation
              /\ svcCall.op = "none"
              /\ storageCalls = 0
        /\ svcCall.op # "none" =>
              /\ ~BadQuery(rq.query)
              /\ svcCall.page >= 1 /\ svcCall.pageSize >= 1

\* C6's case: the request of the route test, page=-1 with another bad key,
\* was answered 400 without a query-layer call.
C6_Witness ==
    /\ rqpc = "done"
    /\ rq.query.page = Text(<<"-", "1">>)
    /\ rq.query.sort = Text(<<"D", "E", "S", "C">>)
    /\ rqRes.status = 400
    /\ svcCall.op = "none"

====
